---- MODULE Spec2Model ----
(***************************************************************************)
(* Ollama adapter of gemini-cli: OllamaContentGenerator (the facade and    *)
(* its NDJSON streaming decoder), the schema converter and the token       *)
(* estimators.                                                             *)
(*                                                                         *)
(* Text is a sequence of one-character strings.  The wire carries one      *)
(* record per line; a record is written "{" fields "}" where the field     *)
(* letters stand for the JSON members of an OllamaStreamChunk:             *)
(*   "a", "b"  one character of message.content                            *)
(*   "d"       done: true                                                  *)
(*   "l"       done_reason: "length"                                       *)
(*   "t"       message.tool_calls with one call                            *)
(*   "p"       prompt_eval_count: 5                                        *)
(*   "e"       eval_count: 3                                               *)
(* Anything else (an unbalanced brace, a stray character) is text that     *)
(* JSON.parse rejects.                                                     *)
(***************************************************************************)
EXTENDS Integers, Sequences, FiniteSets, TLC

VARIABLES
  op,            \* the method called: "generate" | "generateStream" | "embed" |
                 \* "countTokens", or the pure function applied
  request,       \* the request (or the text) the method is called with
  sent,          \* the bodies of the HTTP requests put on the wire
  result,        \* what the call returned: <<>> or <<value>>
  baseUrl,       \* this.baseUrl
  aborted,       \* request.config.abortSignal.aborted
  preAborted,    \* history: the signal was already set when the method was called
  pc,            \* position of the call / of the generator
  httpRequests,  \* HTTP requests put on the wire by fetch
  response,      \* the Response fetch resolved with: <<>> or <<[status, body, hasBody]>>
  rejection,     \* history: what the transport rejected with: <<>> or <<error>>
  thrown,        \* what the caller's await/pull rejected with: <<>> or <<error>>
  written,       \* history: the lines the server writes on the response body
  trailingNL,    \* history: the last line written is newline-terminated
  pos,           \* bytes of the body already delivered by reader.read()
  buffer,        \* parseStreamingResponse: buffer
  lines,         \* parseStreamingResponse: lines still to run in the for loop
  isFirst,       \* parseStreamingResponse: isFirst
  locked,        \* the body's reader lock is held
  cut,           \* history: some read ended inside a line
  decoded,       \* history: chunks handed to convertStreamChunkToGeminiResponse
  yielded,       \* history: fragments the generator yielded to the caller
  sources,       \* history: the chunk each yielded fragment was converted from
  lastPull       \* how the caller's latest next()/return() settled: "none" |
                 \* "fragment" | "done" | "error"

vars == <<op, request, sent, result, baseUrl, aborted, preAborted, pc,
          httpRequests, response, rejection, thrown, written, trailingNL, pos,
          buffer, lines, isFirst, locked, cut, decoded, yielded, sources,
          lastPull>>

streamVars == <<pos, buffer, lines, isFirst, locked, cut, decoded, yielded,
                sources, lastPull>>

----------------------------------------------------------------------------
(* Bounds *)

MaxLines == 3

\* characters of a text handed to a token estimator
MaxTextLen == 3

\* calls of one estimator on the same text
MaxCalls == 2

\* parts of a turn handed to the converter
MaxParts == 3

\* turns of a request handed to the converter
MaxTurns == 2

MaxLiveLines == 2

----------------------------------------------------------------------------
(* Text helpers *)

NL == "\n"

Whitespace == {" "}

Last(s) == s[Len(s)]

Front(s) == SubSeq(s, 1, Len(s) - 1)

\* String.prototype.includes, at the granularity of message tokens
Includes(msg, tok) == \E i \in 1..Len(msg) : msg[i] = tok

\* String.prototype.split('\n')
RECURSIVE Split(_)
Split(s) ==
  IF \A i \in 1..Len(s) : s[i] # NL
  THEN <<s>>
  ELSE LET k == CHOOSE i \in 1..Len(s) :
                  s[i] = NL /\ \A j \in 1..(i - 1) : s[j] # NL
       IN <<SubSeq(s, 1, k - 1)>> \o Split(SubSeq(s, k + 1, Len(s)))

\* line.trim() === ''
IsBlank(s) == \A i \in 1..Len(s) : s[i] \in Whitespace

\* String.prototype.trim
RECURSIVE Trim(_)
Trim(s) ==
  IF s = <<>> THEN s
  ELSE IF Head(s) \in Whitespace THEN Trim(Tail(s))
  ELSE IF Last(s) \in Whitespace THEN Trim(Front(s))
  ELSE s

----------------------------------------------------------------------------
(* Parts of a Content.  An optional value is <<>> (absent) or <<v>>; a     *)
(* mapping (function-call args, a function-response payload, a parameter   *)
(* schema) is a sequence of [k, v] pairs.                                  *)

Part(kind, text, mimeType, data, name, args, resp) ==
  [kind |-> kind, text |-> text, mimeType |-> mimeType, data |-> data,
   name |-> name, args |-> args, response |-> resp]

TextPart(t) == Part("text", t, <<>>, "", "", <<>>, <<>>)

InlineDataPart(mimeType, data) ==
  Part("inlineData", <<>>, mimeType, data, "", <<>>, <<>>)

FunctionCallPart(name, args) ==
  Part("functionCall", <<>>, <<>>, "", name, args, <<>>)

FunctionResponsePart(resp) ==
  Part("functionResponse", <<>>, <<>>, "", "", <<>>, resp)

IsFunctionCall(part) == part.kind = "functionCall"

----------------------------------------------------------------------------
(* The stream-chunk converter and the decoder's line loop *)

ContentChars == {"a", "b"}

FieldChars == ContentChars \cup {"d", "l", "t", "p", "e"}

\* the one tool call a record may carry
ToolCall == [name |-> "read_file", arguments |-> << [k |-> "path", v |-> "a"] >>]

NoChunk ==
  [content |-> <<>>, tool_calls |-> <<>>, done |-> FALSE,
   done_reason |-> "undefined", prompt_eval_count |-> <<>>,
   eval_count |-> <<>>]

\* count || 0
OrZero(count) == IF count = <<>> THEN 0 ELSE count[1]

\* the total taken from eval_count alone
UsageMetadataEvalOnly(prompt_eval_count, eval_count) ==
  [promptTokenCount |-> OrZero(prompt_eval_count),
   candidatesTokenCount |-> OrZero(eval_count),
   totalTokenCount |-> OrZero(eval_count)]

\* usageMetadata, of convertToGeminiResponse and of
\* convertStreamChunkToGeminiResponse alike
UsageMetadata(prompt_eval_count, eval_count) ==
  [promptTokenCount |-> OrZero(prompt_eval_count),
   candidatesTokenCount |-> OrZero(eval_count),
   totalTokenCount |-> OrZero(prompt_eval_count) + OrZero(eval_count)]

\* JSON.parse(line) as OllamaStreamChunk: ok is FALSE where JSON.parse throws
ParseLine(s) ==
  LET core == Trim(s)
      n == Len(core)
      inner == IF n >= 2 THEN SubSeq(core, 2, n - 1) ELSE <<>>
      IsContent(c) == c \in ContentChars
      has(c) == \E i \in 1..Len(inner) : inner[i] = c
  IN IF /\ n >= 2
        /\ core[1] = "{"
        /\ core[n] = "}"
        /\ \A i \in 1..Len(inner) : inner[i] \in FieldChars \cup Whitespace
     THEN [ok |-> TRUE,
           chunk |-> [content |-> SelectSeq(inner, IsContent),
                      tool_calls |-> IF has("t") THEN <<ToolCall>> ELSE <<>>,
                      done |-> has("d"),
                      done_reason |-> IF has("l") THEN "length"
                                      ELSE IF has("d") THEN "stop"
                                      ELSE "undefined",
                      prompt_eval_count |-> IF has("p") THEN <<5>> ELSE <<>>,
                      eval_count |-> IF has("e") THEN <<3>> ELSE <<>>]]
     ELSE [ok |-> FALSE, chunk |-> NoChunk]

\* the converter with the full-response default: finishReason starts as STOP
convertStreamChunkAlwaysFinished(chunk) ==
  [parts |-> IF chunk.content # <<>> THEN <<TextPart(chunk.content)>> ELSE <<>>,
   finishReason |-> IF chunk.done_reason = "length" THEN "MAX_TOKENS" ELSE "STOP",
   usageMetadata |-> IF chunk.done
                     THEN <<UsageMetadata(chunk.prompt_eval_count,
                                          chunk.eval_count)>>
                     ELSE <<>>]

\* usage metadata attached to every fragment
convertStreamChunkUsageAlways(chunk) ==
  [parts |-> IF chunk.content # <<>> THEN <<TextPart(chunk.content)>> ELSE <<>>,
   finishReason |-> IF chunk.done
                    THEN (IF chunk.done_reason = "length" THEN "MAX_TOKENS"
                          ELSE "STOP")
                    ELSE "undefined",
   usageMetadata |-> <<UsageMetadata(chunk.prompt_eval_count,
                                     chunk.eval_count)>>]

\* convertStreamChunkToGeminiResponse(chunk, _isFirst)
convertStreamChunkToGeminiResponse(chunk) ==
  [parts |-> IF chunk.content # <<>> THEN <<TextPart(chunk.content)>> ELSE <<>>,
   finishReason |-> IF chunk.done
                    THEN (IF chunk.done_reason = "length"
                          THEN "MAX_TOKENS" ELSE "STOP")
                    ELSE "undefined",
   usageMetadata |-> IF chunk.done
                     THEN <<UsageMetadata(chunk.prompt_eval_count,
                                          chunk.eval_count)>>
                     ELSE <<>>]

\* a done_reason that is neither stop nor length given a reason of its own
FinishReasonOrOther(done_reason, done) ==
  IF done_reason = <<"stop">> THEN "STOP"
  ELSE IF done_reason = <<"length">> THEN "MAX_TOKENS"
  ELSE IF done_reason = <<>> THEN "STOP"
  ELSE "OTHER"

\* convertToGeminiResponse: finishReason, STOP to begin with
FinishReasonOf(done_reason, done) ==
  IF done_reason = <<"stop">> THEN "STOP"
  ELSE IF done_reason = <<"length">> THEN "MAX_TOKENS"
  ELSE IF done THEN "STOP"
  ELSE "STOP"

\* convertToGeminiResponse: the text part, then one functionCall part for
\* each tool call
convertToGeminiResponse(ollamaResponse) ==
  [parts |-> (IF ollamaResponse.content # <<>>
              THEN <<TextPart(ollamaResponse.content)>> ELSE <<>>)
             \o [i \in 1..Len(ollamaResponse.tool_calls) |->
                   FunctionCallPart(ollamaResponse.tool_calls[i].name,
                                    <<ollamaResponse.tool_calls[i].arguments>>)],
   finishReason |-> FinishReasonOf(ollamaResponse.done_reason, ollamaResponse.done),
   usageMetadata |-> <<UsageMetadata(ollamaResponse.prompt_eval_count,
                                     ollamaResponse.eval_count)>>]

\* hasParts: candidates[0].content.parts && parts.length > 0
HasParts(g) == Len(g.parts) > 0

\* the buffer overwritten by the chunk
AccumulateReplaced(buf, chunk) == chunk

\* buffer += decoder.decode(value, { stream: true })
Accumulate(buf, chunk) == buf \o chunk

\* the last element read but not popped: it stays among the lines
CandidateLinesNotPopped(segs) == segs

\* lines after the split: every element but the last
CandidateLines(segs) == Front(segs)

\* the incomplete last line thrown away instead of kept
PopBufferDropped(segs) == <<>>

\* buffer = lines.pop() || ''
PopBuffer(segs) == Last(segs)

\* the loop without its try/catch: a line that fails to parse ends the loop
RECURSIVE RunLinesNoCatch(_)
RunLinesNoCatch(ls) ==
  IF ls = <<>> THEN [out |-> <<>>, rest |-> <<>>, dec |-> <<>>]
  ELSE LET line == Head(ls)
           rest == Tail(ls)
       IN IF IsBlank(line) THEN RunLinesNoCatch(rest)
          ELSE LET p == ParseLine(line)
               IN IF ~p.ok
                  THEN [out |-> <<>>, rest |-> <<>>, dec |-> <<>>]
                  ELSE LET g == convertStreamChunkToGeminiResponse(p.chunk)
                       IN IF HasParts(g) \/ p.chunk.done
                          THEN [out |-> <<g>>, rest |-> rest, dec |-> <<p.chunk>>]
                          ELSE LET r == RunLinesNoCatch(rest)
                               IN [r EXCEPT !.dec = <<p.chunk>> \o @]

\* The for loop over lines, run until it suspends at a yield or runs out of
\* lines: out is the fragment yielded (<<>> if none), rest the lines still to
\* run after the yield, dec the chunks converted on the way.
RECURSIVE RunLines(_)
RunLines(ls) ==
  IF ls = <<>> THEN [out |-> <<>>, rest |-> <<>>, dec |-> <<>>]
  ELSE LET line == Head(ls)
           rest == Tail(ls)
       IN IF IsBlank(line) THEN RunLines(rest)
          ELSE LET p == ParseLine(line)
               IN IF ~p.ok
                  THEN RunLines(rest)     \* catch: debug log, next line
                  ELSE LET g == convertStreamChunkToGeminiResponse(p.chunk)
                       IN IF HasParts(g) \/ p.chunk.done
                          THEN [out |-> <<g>>, rest |-> rest, dec |-> <<p.chunk>>]
                          ELSE LET r == RunLines(rest)
                               IN [r EXCEPT !.dec = <<p.chunk>> \o @]

\* the remaining buffer left unread
RunTailIgnored(buf) == [out |-> <<>>, dec |-> <<>>]

\* After the loop: the remaining buffer, parsed once and yielded as it is
RunTail(buf) ==
  IF IsBlank(buf) THEN [out |-> <<>>, dec |-> <<>>]
  ELSE LET p == ParseLine(buf)
       IN IF ~p.ok THEN [out |-> <<>>, dec |-> <<>>]
          ELSE [out |-> <<convertStreamChunkToGeminiResponse(p.chunk)>>,
                dec |-> <<p.chunk>>]

\* no finally block: the lock stays as it is
ReleaseLockMissing(l) == l

\* finally { reader.releaseLock() }
ReleaseLock(l) == FALSE

----------------------------------------------------------------------------
(* Errors: origin tells an error object the transport raised from one the   *)
(* facade constructs; msg is the message as a sequence of tokens.          *)

Err(origin, name, msg) == [origin |-> origin, name |-> name, msg |-> msg]

AbortErrors ==
  { Err("transport", "AbortError", <<"This operation was aborted">>),
    Err("transport", "AbortError", <<"aborted:", "ECONNREFUSED">>) }

RefusedError ==
  Err("transport", "Error", <<"connect", "ECONNREFUSED", "127.0.0.1:11434">>)

OtherTransportError == Err("transport", "TypeError", <<"terminated">>)

\* what fetch may reject with
TransportErrors == AbortErrors \cup {RefusedError, OtherTransportError}

\* what reading a body (response.text(), response.json(), reader.read()) may
\* reject with, once the connection stands
ReadErrors == AbortErrors \cup {OtherTransportError}

\* new Error(`Cannot connect to Ollama at ${this.baseUrl}. Please ensure ...`)
ConnectionError(base) ==
  Err("facade", "Error",
      <<"Cannot connect to Ollama at ">> \o base
        \o <<". ", "Please ensure Ollama is running (try: ollama serve)">>)

\* new Error(`Ollama API error (${response.status}): ${errorText}`)
HttpError(status, errorText) ==
  Err("facade", "Error",
      <<"Ollama API error (", ToString(status), "): ">> \o errorText)

NullBodyError == Err("facade", "Error", <<"Ollama response body is null">>)

\* new Error(`Ollama embeddings API error (${response.status}): ${errorText}`)
EmbedHttpError(status, errorText) ==
  Err("facade", "Error",
      <<"Ollama embeddings API error (", ToString(status), "): ">> \o errorText)

\* new Error('No text content found for embedding')
ValidationError ==
  Err("facade", "Error", <<"No text content found for embedding">>)

\* the catch block with the ECONNREFUSED test ahead of the AbortError test
CatchGenerateRefusedFirst(error, base) ==
  IF Includes(error.msg, "ECONNREFUSED") THEN ConnectionError(base)
  ELSE error

\* generateContent's catch block
CatchGenerate(error, base) ==
  IF error.name = "AbortError" THEN error
  ELSE IF Includes(error.msg, "ECONNREFUSED") THEN ConnectionError(base)
  ELSE error

\* generateContentStream has no catch block
CatchGenerateStream(error, base) == error

\* embedContent's catch block
CatchEmbed(error, base) ==
  IF Includes(error.msg, "ECONNREFUSED") THEN ConnectionError(base)
  ELSE error

\* fetch called without the signal option
FetchSignalOmitted(sig) == FALSE

\* signal: request.config?.abortSignal, as fetch receives it
FetchSignal(sig) == sig

\* constructor: baseUrl.replace(/\/$/, '')
StripTrailingSlash(url) ==
  IF url # <<>> /\ Last(url) = "/" THEN Front(url) ELSE url

----------------------------------------------------------------------------
(* Schema converter, request direction *)

\* Array.prototype.join('\n')
RECURSIVE JoinNL(_)
JoinNL(ts) ==
  IF ts = <<>> THEN <<>>
  ELSE IF Len(ts) = 1 THEN ts[1]
  ELSE ts[1] \o <<NL>> \o JoinNL(Tail(ts))

\* JSON.stringify of a mapping with string values
RECURSIVE StringifyPairs(_)
StringifyPairs(m) ==
  IF m = <<>> THEN <<>>
  ELSE <<"\"", m[1].k, "\"", ":", "\"", m[1].v, "\"">>
         \o (IF Len(m) > 1 THEN <<",">> ELSE <<>>)
         \o StringifyPairs(Tail(m))

JSONStringify(m) == <<"{">> \o StringifyPairs(m) \o <<"}">>

\* mimeType?.startsWith('image/'); a MIME type is <<type "/", subtype>>
StartsWithImage(mimeType) == mimeType # <<>> /\ mimeType[1] = "image/"

\* content.role to the message role, before any functionResponse part
RoleOf(role) ==
  IF role = "model" THEN "assistant"
  ELSE IF role = "function" THEN "tool"
  ELSE "user"

\* the chain with a functionResponse part leaving the role as it is
ConvertPartRoleKept(part, acc) ==
  IF part.kind = "text" /\ part.text # <<>>
  THEN [acc EXCEPT !.textParts = Append(@, part.text)]
  ELSE IF part.kind = "inlineData"
  THEN (IF StartsWithImage(part.mimeType)
        THEN [acc EXCEPT !.images = Append(@, part.data)]
        ELSE acc)
  ELSE IF part.kind = "functionCall"
  THEN [acc EXCEPT !.toolCalls =
          Append(@, [name |-> part.name,
                     arguments |-> IF part.args = <<>> THEN <<>>
                                   ELSE part.args[1]])]
  ELSE IF part.kind = "functionResponse"
  THEN [acc EXCEPT !.textParts = Append(@, JSONStringify(part.response))]
  ELSE acc

\* the chain with every inlineData part taken for an image
ConvertPartAnyInline(part, acc) ==
  IF part.kind = "text" /\ part.text # <<>>
  THEN [acc EXCEPT !.textParts = Append(@, part.text)]
  ELSE IF part.kind = "inlineData"
  THEN [acc EXCEPT !.images = Append(@, part.data)]
  ELSE IF part.kind = "functionCall"
  THEN [acc EXCEPT !.toolCalls =
          Append(@, [name |-> part.name,
                     arguments |-> IF part.args = <<>> THEN <<>>
                                   ELSE part.args[1]])]
  ELSE IF part.kind = "functionResponse"
  THEN [acc EXCEPT !.role = "tool",
                   !.textParts = Append(@, JSONStringify(part.response))]
  ELSE acc

\* the if / else-if chain of convertContentToMessage, for one part
ConvertPart(part, acc) ==
  IF part.kind = "text" /\ part.text # <<>>
  THEN [acc EXCEPT !.textParts = Append(@, part.text)]
  ELSE IF part.kind = "inlineData"
  THEN (IF StartsWithImage(part.mimeType)
        THEN [acc EXCEPT !.images = Append(@, part.data)]
        ELSE acc)
  ELSE IF part.kind = "functionCall"
  THEN [acc EXCEPT !.toolCalls =
          Append(@, [name |-> part.name,
                     arguments |-> IF part.args = <<>> THEN <<>>
                                   ELSE part.args[1]])]
  ELSE IF part.kind = "functionResponse"
  THEN [acc EXCEPT !.role = "tool",
                   !.textParts = Append(@, JSONStringify(part.response))]
  ELSE acc

\* the for loop over content.parts
RECURSIVE ConvertParts(_, _)
ConvertParts(parts, acc) ==
  IF parts = <<>> THEN acc
  ELSE ConvertParts(Tail(parts), ConvertPart(Head(parts), acc))

\* convertContentToMessage: <<>> is null; images and tool_calls are left off
\* the message when empty, which the empty sequence stands for
convertContentToMessage(content) ==
  IF content.parts = <<>> THEN <<>>
  ELSE LET acc == ConvertParts(content.parts,
                    [role |-> RoleOf(content.role), textParts |-> <<>>,
                     images |-> <<>>, toolCalls |-> <<>>])
       IN << [role |-> acc.role,
              content |-> JoinNL(acc.textParts),
              images |-> acc.images,
              tool_calls |-> acc.toolCalls] >>

\* extractTextFromContent
extractTextFromContent(content) ==
  LET IsText(part) == part.kind = "text" /\ part.text # <<>>
      texts == SelectSeq(content.parts, IsText)
  IN JoinNL([i \in 1..Len(texts) |-> texts[i].text])

SystemMessage(text) ==
  [role |-> "system", content |-> text, images |-> <<>>, tool_calls |-> <<>>]

\* the system message of convertToOllamaRequest: params.systemInstruction
SystemMessages(params) ==
  IF params.systemInstruction = <<>> THEN <<>>
  ELSE LET systemText == extractTextFromContent(params.systemInstruction[1])
       IN IF systemText # <<>> THEN <<SystemMessage(systemText)>> ELSE <<>>

\* the for loop over params.contents: if (message) messages.push(message)
RECURSIVE TurnMessages(_)
TurnMessages(contents) ==
  IF contents = <<>> THEN <<>>
  ELSE convertContentToMessage(Head(contents)) \o TurnMessages(Tail(contents))

NoOptions ==
  [temperature |-> <<>>, top_p |-> <<>>, top_k |-> <<>>, num_predict |-> <<>>,
   stop |-> <<>>, seed |-> <<>>]

\* Object.keys(options).length
OptionKeys(o) ==
  {f \in {"temperature", "top_p", "top_k", "num_predict", "stop", "seed"} :
     o[f] # <<>>}

\* the options with every field tested for truthiness: a 0 is left out
convertGenerationConfigTruthy(config) ==
  IF config = <<>> THEN <<>>
  ELSE LET c == config[1]
           Truthy(v) == IF v = <<0>> THEN <<>> ELSE v
           options ==
             [temperature |-> Truthy(c.temperature),
              top_p |-> Truthy(c.topP),
              top_k |-> Truthy(c.topK),
              num_predict |-> Truthy(c.maxOutputTokens),
              stop |-> IF c.stopSequences # <<>> /\ Len(c.stopSequences[1]) > 0
                       THEN c.stopSequences ELSE <<>>,
              seed |-> Truthy(c.seed)]
       IN IF Cardinality(OptionKeys(options)) > 0 THEN <<options>> ELSE <<>>

\* convertGenerationConfig
convertGenerationConfig(config) ==
  IF config = <<>> THEN <<>>
  ELSE LET c == config[1]
           options ==
             [temperature |-> c.temperature,
              top_p |-> c.topP,
              top_k |-> c.topK,
              num_predict |-> c.maxOutputTokens,
              stop |-> IF c.stopSequences # <<>> /\ Len(c.stopSequences[1]) > 0
                       THEN c.stopSequences ELSE <<>>,
              seed |-> c.seed]
       IN IF Cardinality(OptionKeys(options)) > 0 THEN <<options>> ELSE <<>>

\* convertFunctionToTool
convertFunctionToTool(fn) ==
  [type |-> "function",
   function |-> [name |-> fn.name,
                 description |-> IF fn.description = <<>> THEN ""
                                 ELSE fn.description[1],
                 parameters |-> IF fn.parameters = <<>> THEN <<>>
                                ELSE fn.parameters[1]]]

\* tools.map(...).flat()
RECURSIVE FlatTools(_)
FlatTools(tools) ==
  IF tools = <<>> THEN <<>>
  ELSE LET fns == Head(tools).functionDeclarations
       IN [i \in 1..Len(fns) |-> convertFunctionToTool(fns[i])]
            \o FlatTools(Tail(tools))

\* the request with the system message pushed after the turns
convertToOllamaRequestSystemLast(params, stream) ==
  [model |-> params.model,
   messages |-> TurnMessages(params.contents) \o SystemMessages(params),
   options |-> convertGenerationConfig(params.config),
   stream |-> stream,
   tools |-> FlatTools(params.tools)]

\* convertToOllamaRequest; options and tools are <<>> where undefined
convertToOllamaRequest(params, stream) ==
  [model |-> params.model,
   messages |-> SystemMessages(params) \o TurnMessages(params.contents),
   options |-> convertGenerationConfig(params.config),
   stream |-> stream,
   tools |-> FlatTools(params.tools)]

----------------------------------------------------------------------------
(* Token estimators.  The fractional weights (1.5, 0.5, 0.3) are counted in *)
(* tenths of a token, and Math.ceil is taken once on the sum, as in the     *)
(* code.                                                                    *)

\* \s
SpaceChars == {" ", NL}

\* the grave accent, written as a name: the lexer does not take it in a string
Backtick == "grave"

\* [.,!?;:'"()\[\]{}]
PunctuationChars ==
  {".", ",", "!", "?", ";", ":", "'", "\"", "(", ")", "[", "]", "{", "}"}

\* [0-9@#$%^&*+=<>\/\\|`~], but for the backslash, which no input here holds
SpecialChars ==
  {"0", "1", "2", "3", "4", "5", "6", "7", "8", "9", "@", "#", "$", "%", "^",
   "&", "*", "+", "=", "<", ">", "/", "|", Backtick, "~"}

\* [\s(){}\[\];,\.]
CodeDelimiters == SpaceChars \cup {"(", ")", "{", "}", "[", "]", ";", ",", "."}

\* [=+\-*\/%<>&|!~^]
OperatorChars ==
  {"=", "+", "-", "*", "/", "%", "<", ">", "&", "|", "!", "~", "^"}

\* ["'`]
QuoteChars == {"\"", "'", Backtick}

\* [A-Z]
UpperChars == {"W"}

\* \w
WordChars == {"w", "W", "_", "1"}

\* Math.ceil(n / d) for n >= 0
CeilDiv(n, d) == (n + d - 1) \div d

\* (text.match(/[class]/g) || []).length
CountIn(s, class) == Cardinality({i \in 1..Len(s) : s[i] \in class})

\* s.split(/[seps]+/).filter((w) => w.length > 0)
RECURSIVE SplitOn(_, _)
SplitOn(s, seps) ==
  IF s = <<>> THEN <<>>
  ELSE IF Head(s) \in seps THEN SplitOn(Tail(s), seps)
  ELSE LET ends == {i \in 1..Len(s) : s[i] \in seps}
           k == IF ends = {} THEN Len(s) + 1
                ELSE CHOOSE i \in ends : \A j \in ends : i <= j
       IN <<SubSeq(s, 1, k - 1)>> \o SplitOn(SubSeq(s, k, Len(s)), seps)

\* the tokens of one word, in tenths
WordTenths(word) ==
  (IF Len(word) <= 6 THEN 10
   ELSE IF Len(word) <= 12 THEN 15
   ELSE 10 * CeilDiv(Len(word), 4))
  + 5 * CountIn(word, PunctuationChars)

RECURSIVE SumWordTenths(_)
SumWordTenths(words) ==
  IF words = <<>> THEN 0
  ELSE WordTenths(Head(words)) + SumWordTenths(Tail(words))

\* estimateTokenCount
estimateTokenCount(text) ==
  IF text = <<>> THEN 0
  ELSE CeilDiv(SumWordTenths(SplitOn(text, SpaceChars))
               + 3 * CountIn(text, SpecialChars), 10)

\* estimateTokenCountSimple
estimateTokenCountSimple(text) ==
  IF text = <<>> THEN 0 ELSE CeilDiv(Len(text), 4)

\* token.split(/[_-]|(?=[A-Z])/).filter((p) => p.length > 0).length: a part
\* starts at a character that is no separator and follows the start, a
\* separator, or stands before nothing but is upper case
IdentifierParts(token) ==
  Cardinality({i \in 1..Len(token) :
                 /\ token[i] \notin {"_", "-"}
                 /\ \/ i = 1
                    \/ token[i - 1] \in {"_", "-"}
                    \/ token[i] \in UpperChars})

CodeTokenCount(token) ==
  IF Len(token) <= 8 THEN 1
  ELSE IF IdentifierParts(token) > 1 THEN IdentifierParts(token) ELSE 1

RECURSIVE SumCodeTokens(_)
SumCodeTokens(tokens) ==
  IF tokens = <<>> THEN 0
  ELSE CodeTokenCount(Head(tokens)) + SumCodeTokens(Tail(tokens))

\* (code.match(/["'`][^"'`]*["'`]/g) || []).length: each match runs from a
\* quote character to the next one
RECURSIVE CountStrings(_)
CountStrings(s) ==
  LET quotes == {i \in 1..Len(s) : s[i] \in QuoteChars}
  IN IF Cardinality(quotes) < 2 THEN 0
     ELSE LET open == CHOOSE i \in quotes : \A j \in quotes : i <= j
              later == {i \in quotes : i > open}
              close == CHOOSE i \in later : \A j \in later : i <= j
          IN 1 + CountStrings(SubSeq(s, close + 1, Len(s)))

\* estimateTokenCountForCode
estimateTokenCountForCode(code) ==
  IF code = <<>> THEN 0
  ELSE SumCodeTokens(SplitOn(code, CodeDelimiters))
       + CountIn(code, OperatorChars)
       + 2 * CountStrings(code)

Fence == <<Backtick, Backtick, Backtick>>

IsFenceAt(s, i) == i + 2 <= Len(s) /\ SubSeq(s, i, i + 2) = Fence

\* the end of the match of /```[\s\S]*?```|`[^`]+`/ that starts at i, 0 if
\* there is none: a fence up to the nearest closing fence, else a backtick,
\* one or more other characters, and a backtick
SpanEnd(s, i) ==
  LET closers == {j \in (i + 3)..Len(s) : IsFenceAt(s, j)}
      ticks == {k \in (i + 2)..Len(s) : s[k] = Backtick}
  IN IF s[i] # Backtick THEN 0
     ELSE IF IsFenceAt(s, i) /\ closers # {}
     THEN (CHOOSE j \in closers : \A m \in closers : j <= m) + 2
     ELSE IF i + 1 <= Len(s) /\ s[i + 1] # Backtick /\ ticks # {}
     THEN CHOOSE k \in ticks : \A m \in ticks : k <= m
     ELSE 0

\* content.split(/(```[\s\S]*?```|`[^`]+`)/): the text between the code
\* spans and the code spans themselves, in order
RECURSIVE SplitSpans(_)
SplitSpans(s) ==
  LET starts == {i \in 1..Len(s) : SpanEnd(s, i) > 0}
  IN IF starts = {} THEN <<s>>
     ELSE LET i == CHOOSE a \in starts : \A b \in starts : a <= b
              e == SpanEnd(s, i)
          IN <<SubSeq(s, 1, i - 1), SubSeq(s, i, e)>>
               \o SplitSpans(SubSeq(s, e + 1, Len(s)))

\* part.replace(/^```[\w]*\n?/, '')
RECURSIVE DropWordChars(_)
DropWordChars(s) ==
  IF s # <<>> /\ Head(s) \in WordChars THEN DropWordChars(Tail(s)) ELSE s

StripOpeningFence(part) ==
  IF IsFenceAt(part, 1)
  THEN LET rest == DropWordChars(SubSeq(part, 4, Len(part)))
       IN IF rest # <<>> /\ Head(rest) = NL THEN Tail(rest) ELSE rest
  ELSE part

\* .replace(/```$/, '')
StripClosingFence(part) ==
  IF Len(part) >= 3 /\ IsFenceAt(part, Len(part) - 2)
  THEN SubSeq(part, 1, Len(part) - 3)
  ELSE part

\* the body of the for loop of estimateTokenCountMixed
MixedPartTokens(part) ==
  IF part # <<>> /\ Head(part) = Backtick
  THEN estimateTokenCountForCode(StripClosingFence(StripOpeningFence(part)))
  ELSE estimateTokenCount(part)

RECURSIVE SumMixedParts(_)
SumMixedParts(parts) ==
  IF parts = <<>> THEN 0
  ELSE MixedPartTokens(Head(parts)) + SumMixedParts(Tail(parts))

\* estimateTokenCountMixed
estimateTokenCountMixed(content) ==
  IF content = <<>> THEN 0 ELSE SumMixedParts(SplitSpans(content))

----------------------------------------------------------------------------
(* Text of a request, as embedContent and countTokens collect it *)

\* for (const part of content.parts)
\*   if ('text' in part && part.text) text += part.text + ' '
RECURSIVE PartsText(_)
PartsText(parts) ==
  IF parts = <<>> THEN <<>>
  ELSE (IF Head(parts).kind = "text" /\ Head(parts).text # <<>>
        THEN Head(parts).text \o <<" ">> ELSE <<>>)
       \o PartsText(Tail(parts))

\* for (const content of contentsArray) ...
RECURSIVE ContentsText(_)
ContentsText(contents) ==
  IF contents = <<>> THEN <<>>
  ELSE PartsText(Head(contents).parts) \o ContentsText(Tail(contents))

\* embedContent: text
EmbedText(req) == ContentsText(req.contents)

\* no test of the text before the request is built
NoEmbedTextUntested(text) == FALSE

\* embedContent: !text.trim()
NoEmbedText(text) == Trim(text) = <<>>

\* embedContent: ollamaRequest
EmbedRequest(req) ==
  [model |-> req.model, prompt |-> Trim(EmbedText(req))]

\* countTokens: totalText, the system instruction of request.config first
CountSystemText(req) ==
  IF req.config # <<>> /\ req.config[1].systemInstruction # <<>>
  THEN PartsText(req.config[1].systemInstruction[1].parts) ELSE <<>>

CountText(req) == CountSystemText(req) \o ContentsText(req.contents)

\* countTokens: the value returned
countTokens(req) == [totalTokens |-> estimateTokenCount(CountText(req))]

\* a rejected fetch answered with a second fetch
AfterRejectionRetried(n) == n + 1

\* the requests issued once fetch has rejected: the error is rethrown (or
\* propagates) and no second fetch is made
AfterRejection(n) == n

----------------------------------------------------------------------------
(* Inputs *)

Content(role, parts) == [role |-> role, parts |-> parts]

\* a GenerateContentConfig: each field is <<>> where the caller left it unset
Config(temperature, topP, topK, maxOutputTokens, stopSequences, seed, system) ==
  [temperature |-> temperature, topP |-> topP, topK |-> topK,
   maxOutputTokens |-> maxOutputTokens, stopSequences |-> stopSequences,
   seed |-> seed, systemInstruction |-> system]

Request(contents, system, config, tools) ==
  [model |-> "llama3.2", contents |-> contents, systemInstruction |-> system,
   config |-> config, tools |-> tools]

UserText(t) == Content("user", <<TextPart(t)>>)

ImagePng == <<"image/", "png">>

\* the request of generate and generateStream
ChatRequest == Request(<<UserText(<<"a">>)>>, <<>>, <<>>, <<>>)

\* embed requests: no turns, a turn without parts, without Text parts, with
\* empty or blank text, with text
EmbedRequests ==
  { Request(cs, <<>>, <<>>, <<>>) :
      cs \in { <<>>,
               <<Content("user", <<>>)>>,
               <<Content("user", <<InlineDataPart(ImagePng, "iVBOR")>>)>>,
               <<UserText(<<>>)>>,
               <<UserText(<<" ">>)>>,
               <<UserText(<<" ">>), UserText(<<" ", " ">>)>>,
               <<UserText(<<"a">>)>>,
               <<UserText(<<" ", "a">>), UserText(<<"b">>)>> } }

\* countTokens requests, with and without a system instruction in the config
CountRequests ==
  { Request(cs, <<>>, cfg, <<>>) :
      cs \in { <<>>, <<UserText(<<"a">>)>>,
               <<UserText(<<"a", "b">>), UserText(<<"b">>)>> },
      cfg \in { <<>>,
                <<Config(<<>>, <<>>, <<>>, <<>>, <<>>, <<>>, <<>>)>>,
                <<Config(<<>>, <<>>, <<>>, <<>>, <<>>, <<>>,
                         <<Content("user", <<TextPart(<<"b">>)>>)>>)>> } }

\* an OllamaResponse, as far as convertToGeminiResponse reads it
OllamaResponse(content, tool_calls, done, done_reason, prompt, eval) ==
  [content |-> content, tool_calls |-> tool_calls, done |-> done,
   done_reason |-> done_reason, prompt_eval_count |-> prompt,
   eval_count |-> eval]

\* what the server may answer a chat that is not streamed
ChatAnswers ==
  { OllamaResponse(<<"H", "e", "l", "l", "o">>, <<>>, TRUE, <<"stop">>, <<5>>, <<3>>),
    OllamaResponse(<<"a">>, <<>>, TRUE, <<"length">>, <<5>>, <<>>),
    OllamaResponse(<<>>, <<ToolCall>>, TRUE, <<>>, <<>>, <<>>) }

\* an OllamaEmbeddingResponse
EmbedAnswers == { [embedding |-> <<1, 2>>] }

\* response.json() of an ok response
Answers(o) ==
  IF o = "generate" THEN ChatAnswers
  ELSE IF o = "embed" THEN EmbedAnswers
  ELSE {}

\* what generateContent and embedContent return for the JSON read
Returned(o, json) ==
  IF o = "generate" THEN convertToGeminiResponse(json)
  ELSE [embeddings |-> << [values |-> json.embedding] >>]

RequestsOf(o) ==
  IF o = "embed" THEN EmbedRequests
  ELSE IF o = "countTokens" THEN CountRequests
  ELSE {ChatRequest}

\* lines a server may write: records with content, an empty record, a
\* terminal record, a record with a tool call, a blank line, a record cut
\* short
LineKinds ==
  { <<"{", "a", "}">>, <<"{", "b", "}">>, <<"{", "}">>, <<"{", "d", "}">>,
    <<"{", "t", "}">>, <<" ">>, <<"{", "a">> }

Streams == UNION { [1..n -> LineKinds] : n \in 0..MaxLines }

BaseUrlInputs ==
  { <<"http://localhost:11434">>, <<"http://localhost:11434", "/">> }

Statuses == {200, 404, 502}

Ok(status) == status \in 200..299

BodyTexts == { <<"model not found">>, <<"upstream: ", "ECONNREFUSED">> }

\* an error response carries its text; a 2xx response may lack a body stream
Responses ==
  [status : {st \in Statuses : ~Ok(st)}, body : BodyTexts, hasBody : {TRUE}]
    \cup [status : {st \in Statuses : Ok(st)}, body : {<<>>}, hasBody : BOOLEAN]

RECURSIVE Join(_)
Join(ls) == IF ls = <<>> THEN <<>> ELSE Head(ls) \o <<NL>> \o Join(Tail(ls))

\* the bytes of the response body
Wire ==
  IF written = <<>> THEN <<>>
  ELSE IF trailingNL THEN Join(written) ELSE Front(Join(written))

----------------------------------------------------------------------------
(* The facade: generateContent, generateContentStream, embedContent and    *)
(* countTokens                                                             *)

Init ==
  /\ op \in {"generate", "generateStream", "embed", "countTokens"}
  /\ request \in RequestsOf(op)
  /\ sent = <<>>
  /\ result = <<>>
  /\ baseUrl \in { StripTrailingSlash(u) : u \in BaseUrlInputs }
  /\ aborted \in BOOLEAN
  /\ preAborted = FALSE
  /\ pc = "idle"
  /\ httpRequests = 0
  /\ response = <<>>
  /\ rejection = <<>>
  /\ thrown = <<>>
  /\ written \in (IF op = "generateStream" THEN Streams ELSE {<<>>})
  /\ trailingNL \in (IF written = <<>> THEN {FALSE} ELSE BOOLEAN)
  /\ pos = 0
  /\ buffer = <<>>
  /\ lines = <<>>
  /\ isFirst = TRUE
  /\ locked = FALSE
  /\ cut = FALSE
  /\ decoded = <<>>
  /\ yielded = <<>>
  /\ sources = <<>>
  /\ lastPull = "none"

Catch(error) ==
  IF op = "generate" THEN CatchGenerate(error, baseUrl)
  ELSE IF op = "embed" THEN CatchEmbed(error, baseUrl)
  ELSE CatchGenerateStream(error, baseUrl)

\* the signal option of the fetch call; embedContent passes none
Signal == op \in {"generate", "generateStream"} /\ FetchSignal(aborted)

\* body: JSON.stringify(ollamaRequest)
Body ==
  IF op = "embed" THEN EmbedRequest(request)
  ELSE convertToOllamaRequest(request, op = "generateStream")

ApiError(status, errorText) ==
  IF op = "embed" THEN EmbedHttpError(status, errorText)
  ELSE HttpError(status, errorText)

\* the caller sets its cancellation signal
Abort ==
  /\ pc \in {"idle", "awaitFetch", "awaitBody", "suspendedStart", "awaitRead",
             "suspendedYield", "suspendedTail"}
  /\ ~aborted
  /\ aborted' = TRUE
  /\ UNCHANGED <<op, request, sent, result, baseUrl, preAborted, pc, httpRequests, response,
                 rejection, thrown, written, trailingNL, streamVars>>

\* The method up to its first await.  countTokens has none and returns its
\* estimate; embedContent throws on empty text before its try block; the
\* others reach `await fetch(...)`, where a signal that is already set makes
\* fetch reject at once, with no request sent.
Invoke ==
  /\ pc = "idle"
  /\ preAborted' = aborted
  /\ IF op = "countTokens"
     THEN /\ result' = <<countTokens(request)>>
          /\ pc' = "returnedResponse"
          /\ UNCHANGED <<sent, httpRequests, rejection, thrown>>
     ELSE IF op = "embed" /\ NoEmbedText(EmbedText(request))
     THEN /\ thrown' = <<ValidationError>>
          /\ pc' = "threw"
          /\ UNCHANGED <<sent, result, httpRequests, rejection>>
     ELSE IF Signal
     THEN \E e \in AbortErrors :
            /\ rejection' = <<e>>
            /\ thrown' = <<Catch(e)>>
            /\ pc' = "threw"
            /\ UNCHANGED <<sent, result, httpRequests>>
     ELSE /\ httpRequests' = httpRequests + 1
          /\ sent' = Append(sent, Body)
          /\ pc' = "awaitFetch"
          /\ UNCHANGED <<result, rejection, thrown>>
  /\ UNCHANGED <<op, request, baseUrl, aborted, response, written, trailingNL,
                 streamVars>>

\* fetch rejects: the transport failed or was cancelled
FetchRejects(e) ==
  /\ pc = "awaitFetch"
  /\ e.name = "AbortError" => Signal
  /\ rejection' = <<e>>
  /\ thrown' = <<Catch(e)>>
  /\ httpRequests' = AfterRejection(httpRequests)
  /\ pc' = "threw"
  /\ UNCHANGED <<op, request, sent, result, baseUrl, aborted, preAborted,
                 response, written, trailingNL, streamVars>>

\* fetch resolves with a Response: generateContentStream returns the
\* generator when the response is ok; otherwise the method awaits the body
\* (response.text() of an error response, response.json() in generateContent)
FetchResolves(r) ==
  /\ pc = "awaitFetch"
  /\ response' = <<r>>
  /\ IF op = "generateStream" /\ Ok(r.status)
     THEN IF ~r.hasBody
          THEN /\ thrown' = <<NullBodyError>>
               /\ pc' = "threw"
          ELSE /\ pc' = "suspendedStart"
               /\ UNCHANGED thrown
     ELSE /\ pc' = "awaitBody"
          /\ UNCHANGED thrown
  /\ UNCHANGED <<op, request, sent, result, baseUrl, aborted, preAborted, httpRequests, rejection,
                 written, trailingNL, streamVars>>

\* the body has been read: an error response becomes the API error, thrown
\* inside the try block of generateContent and embedContent; an ok response
\* is converted and returned
BodyResolves ==
  /\ pc = "awaitBody"
  /\ IF ~Ok(response[1].status)
     THEN /\ thrown' = <<Catch(ApiError(response[1].status, response[1].body))>>
          /\ pc' = "threw"
          /\ UNCHANGED <<response, result>>
     ELSE \E json \in Answers(op) :
            /\ response' = <<[response[1] EXCEPT !.body = <<json>>]>>
            /\ result' = <<Returned(op, json)>>
            /\ pc' = "returnedResponse"
            /\ UNCHANGED thrown
  /\ UNCHANGED <<op, request, sent, baseUrl, aborted, preAborted, httpRequests,
                 rejection, written, trailingNL, streamVars>>

\* reading the body rejects
BodyRejects(e) ==
  /\ pc = "awaitBody"
  /\ e.name = "AbortError" => Signal
  /\ rejection' = <<e>>
  /\ thrown' = <<Catch(e)>>
  /\ pc' = "threw"
  /\ UNCHANGED <<op, request, sent, result, baseUrl, aborted, preAborted, httpRequests, response,
                 written, trailingNL, streamVars>>

----------------------------------------------------------------------------
(* The generator: parseStreamingResponse *)

facadeVars == <<op, request, sent, result, baseUrl, aborted, preAborted, httpRequests, response,
                written, trailingNL>>

\* run the for loop over ls until the next yield or the next reader.read()
Loop(ls) ==
  LET r == RunLines(ls)
  IN /\ decoded' = decoded \o r.dec
     /\ isFirst' = (isFirst /\ r.dec = <<>>)
     /\ yielded' = yielded \o r.out
     /\ sources' = sources \o (IF r.out # <<>> THEN <<Last(r.dec)>> ELSE <<>>)
     /\ lines' = r.rest
     /\ pc' = IF r.out # <<>> THEN "suspendedYield" ELSE "awaitRead"
     /\ lastPull' = IF r.out # <<>> THEN "fragment" ELSE lastPull

\* first next(): body.getReader(), then the first reader.read()
PullStart ==
  /\ pc = "suspendedStart"
  /\ locked' = TRUE
  /\ pc' = "awaitRead"
  /\ UNCHANGED <<facadeVars, rejection, thrown, pos, buffer, lines, isFirst,
                 cut, decoded, yielded, sources, lastPull>>

\* reader.read() resolves with the next n bytes
ReadChunk(n) ==
  /\ pc = "awaitRead"
  /\ ~FetchSignal(aborted)
  /\ n \in 1..(Len(Wire) - pos)
  /\ LET segs == Split(Accumulate(buffer, SubSeq(Wire, pos + 1, pos + n)))
     IN /\ buffer' = PopBuffer(segs)
        /\ Loop(CandidateLines(segs))
  /\ pos' = pos + n
  /\ cut' = (cut \/ buffer' # <<>>)
  /\ UNCHANGED <<facadeVars, rejection, thrown, locked>>

\* next() while suspended at the yield inside the loop
PullResume ==
  /\ pc = "suspendedYield"
  /\ Loop(lines)
  /\ UNCHANGED <<facadeVars, rejection, thrown, pos, buffer, locked, cut>>

\* reader.read() resolves with done: the remaining buffer, then finally
ReadDone ==
  /\ pc = "awaitRead"
  /\ pos = Len(Wire)
  /\ LET t == RunTail(buffer)
     IN /\ decoded' = decoded \o t.dec
        /\ yielded' = yielded \o t.out
        /\ sources' = sources \o (IF t.out # <<>> THEN t.dec ELSE <<>>)
        /\ lastPull' = IF t.out # <<>> THEN "fragment" ELSE "done"
        /\ IF t.out # <<>>
           THEN pc' = "suspendedTail" /\ UNCHANGED locked
           ELSE pc' = "completed" /\ locked' = ReleaseLock(locked)
  /\ UNCHANGED <<facadeVars, rejection, thrown, pos, buffer, lines, isFirst,
                 cut>>

\* next() while suspended at the yield after the loop: finally, then return
PullAfterTail ==
  /\ pc = "suspendedTail"
  /\ locked' = ReleaseLock(locked)
  /\ pc' = "completed"
  /\ lastPull' = "done"
  /\ UNCHANGED <<facadeVars, rejection, thrown, pos, buffer, lines, isFirst,
                 cut, decoded, yielded, sources>>

\* the rejection caught inside the generator, which then ends normally
ReadRejectsSwallowed(e) ==
  /\ pc = "awaitRead"
  /\ e.name = "AbortError" => FetchSignal(aborted)
  /\ rejection' = <<e>>
  /\ locked' = FALSE
  /\ pc' = "completed"
  /\ lastPull' = "done"
  /\ UNCHANGED <<facadeVars, thrown, pos, buffer, lines, isFirst, cut, decoded,
                 yielded, sources>>

\* reader.read() rejects: finally, then the pull rejects with the error
ReadRejects(e) ==
  /\ pc = "awaitRead"
  /\ e.name = "AbortError" => FetchSignal(aborted)
  /\ rejection' = <<e>>
  /\ thrown' = <<e>>
  /\ locked' = ReleaseLock(locked)
  /\ pc' = "failed"
  /\ lastPull' = "error"
  /\ UNCHANGED <<facadeVars, pos, buffer, lines, isFirst, cut, decoded,
                 yielded, sources>>

\* return() while suspended: at a yield the finally block runs; before the
\* first next() the body never ran and no reader was taken
Return ==
  /\ pc \in {"suspendedStart", "suspendedYield", "suspendedTail"}
  /\ locked' = IF pc = "suspendedStart" THEN locked ELSE ReleaseLock(locked)
  /\ pc' = "returned"
  /\ lastPull' = "done"
  /\ UNCHANGED <<facadeVars, rejection, thrown, pos, buffer, lines, isFirst,
                 cut, decoded, yielded, sources>>

\* the body run again from its start on a pull after the end
PullEndedRestarts ==
  /\ pc \in {"completed", "failed", "returned"}
  /\ pc' = "awaitRead"
  /\ pos' = 0
  /\ buffer' = <<>>
  /\ locked' = TRUE
  /\ UNCHANGED <<facadeVars, rejection, thrown, lines, isFirst, cut, decoded,
                 yielded, sources, lastPull>>

\* next() on a generator that has completed, thrown or been returned: done,
\* and nothing of the body runs
PullEnded ==
  /\ pc \in {"completed", "failed", "returned"}
  /\ lastPull' = "done"
  /\ UNCHANGED <<facadeVars, rejection, thrown, pc, pos, buffer, lines,
                 isFirst, locked, cut, decoded, yielded, sources>>

Next ==
  \/ Abort
  \/ Invoke
  \/ \E e \in TransportErrors : FetchRejects(e)
  \/ \E r \in Responses : FetchResolves(r)
  \/ BodyResolves
  \/ \E e \in ReadErrors : BodyRejects(e)
  \/ PullStart
  \/ \E n \in 1..Len(Wire) : ReadChunk(n)
  \/ PullResume
  \/ ReadDone
  \/ PullAfterTail
  \/ \E e \in ReadErrors : ReadRejects(e)
  \/ Return
  \/ PullEnded

Spec == Init /\ [][Next]_vars

\* the caller's next()
Pull ==
  \/ PullStart
  \/ PullResume
  \/ PullAfterTail
  \/ PullEnded

\* the pending reader.read() settles
Read ==
  \/ \E e \in ReadErrors : ReadRejects(e)
  \/ ReadDone
  \/ \E n \in 1..Len(Wire) : ReadChunk(n)

\* a call of generateContentStream, its body of at most MaxLiveLines lines
InitLive ==
  /\ Init
  /\ op = "generateStream"
  /\ Len(written) <= MaxLiveLines

\* a caller that keeps pulling (for await) and a byte source that settles
\* every read
SpecLive == InitLive /\ [][Next]_vars /\ WF_vars(Pull) /\ WF_vars(Read)

----------------------------------------------------------------------------
(* The token estimators, applied to a text *)

\* every variable of the facade and of the generator but pc
restVars == <<sent, baseUrl, aborted, preAborted, httpRequests, response,
              rejection, thrown, written, trailingNL, streamVars>>

\* no call of the facade is under way
NoCall ==
  /\ sent = <<>>
  /\ result = <<>>
  /\ baseUrl = StripTrailingSlash(<<"http://localhost:11434">>)
  /\ aborted = FALSE
  /\ preAborted = FALSE
  /\ pc = "idle"
  /\ httpRequests = 0
  /\ response = <<>>
  /\ rejection = <<>>
  /\ thrown = <<>>
  /\ written = <<>>
  /\ trailingNL = FALSE
  /\ pos = 0
  /\ buffer = <<>>
  /\ lines = <<>>
  /\ isFirst = TRUE
  /\ locked = FALSE
  /\ cut = FALSE
  /\ decoded = <<>>
  /\ yielded = <<>>
  /\ sources = <<>>
  /\ lastPull = "none"

\* a space, a newline, a lower-case and an upper-case letter, a digit, a
\* punctuation mark, an operator, an underscore and the grave accent
EstimateChars == {" ", NL, "w", "W", "1", ".", "=", "_", Backtick}

Repeat(c, n) == [i \in 1..n |-> c]

\* words of 7 and of 13 characters, identifiers of more than 8 characters in
\* camel case and in snake case, a word with punctuation, a quoted string, a
\* fenced code block within text, an inline code span
LongTexts ==
  { Repeat("w", 7),
    Repeat("w", 13),
    Repeat("w", 9),
    Repeat("w", 5) \o <<"W">> \o Repeat("w", 4),
    Repeat("w", 5) \o <<"_">> \o Repeat("w", 4),
    <<"w", "w", ",", " ", "w", "!">>,
    <<"w", "=", "\"", "w", "\"", ";">>,
    <<"w", " ">> \o Fence \o <<"w", NL, "w", "=", "1", NL>> \o Fence \o <<" ", "w">>,
    <<"w", " ", Backtick, "w", "(", ")", Backtick>> }

Texts ==
  UNION { [1..n -> EstimateChars] : n \in 0..MaxTextLen } \cup LongTexts

Estimators ==
  {"estimateTokenCount", "estimateTokenCountSimple",
   "estimateTokenCountForCode", "estimateTokenCountMixed"}

InitEstimate ==
  /\ op \in Estimators
  /\ request \in Texts
  /\ NoCall

\* one more call of the estimator on the text, its value kept
Returns(o, value) ==
  /\ op = o
  /\ Len(result) < MaxCalls
  /\ result' = Append(result, value)
  /\ pc' = "returnedResponse"
  /\ UNCHANGED <<op, request, restVars>>

Estimate == Returns("estimateTokenCount", estimateTokenCount(request))

EstimateSimple ==
  Returns("estimateTokenCountSimple", estimateTokenCountSimple(request))

EstimateForCode ==
  Returns("estimateTokenCountForCode", estimateTokenCountForCode(request))

EstimateMixed ==
  Returns("estimateTokenCountMixed", estimateTokenCountMixed(request))

NextEstimate ==
  \/ Estimate
  \/ EstimateSimple
  \/ EstimateForCode
  \/ EstimateMixed

SpecEstimate == InitEstimate /\ [][NextEstimate]_vars

----------------------------------------------------------------------------
(* The schema converter, applied to a request *)

\* parts a turn may hold: Text (empty or not), inline images, inline data
\* of another or of no MIME type, a function call, a function response
PartKinds ==
  { TextPart(<<>>), TextPart(<<"a">>), TextPart(<<"b">>),
    InlineDataPart(ImagePng, "iVBOR"),
    InlineDataPart(<<"image/", "jpeg">>, "/9j/4"),
    InlineDataPart(<<"application/", "pdf">>, "JVBER"),
    InlineDataPart(<<>>, "AAAA"),
    FunctionCallPart("read_file", << << [k |-> "path", v |-> "a"] >> >>),
    FunctionResponsePart(<< [k |-> "output", v |-> "ok"] >>) }

PartLists == UNION { [1..n -> PartKinds] : n \in 0..MaxParts }

Roles == {"user", "model", "function"}

\* one turn, of every role and every list of parts
SingleTurnRequests ==
  { Request(<<Content(r, ps)>>, <<>>, <<>>, <<>>) : r \in Roles, ps \in PartLists }

TurnKinds ==
  { UserText(<<"a">>),
    Content("model", <<TextPart(<<"b">>)>>),
    Content("system", <<TextPart(<<"a">>)>>),
    Content("user", <<>>),
    UserText(<<>>) }

TurnLists == UNION { [1..n -> TurnKinds] : n \in 0..MaxTurns }

\* params.systemInstruction: absent, with text, with empty text, without
\* parts, without Text parts, with two Text parts
SystemInstructions ==
  { <<>>,
    <<Content("user", <<TextPart(<<"s">>)>>)>>,
    <<Content("user", <<TextPart(<<>>)>>)>>,
    <<Content("user", <<>>)>>,
    <<Content("user", <<InlineDataPart(ImagePng, "iVBOR")>>)>>,
    <<Content("user", <<TextPart(<<"s">>), TextPart(<<"t">>)>>)>> }

\* several turns, with and without a system instruction
MultiTurnRequests ==
  { Request(ts, sys, <<>>, <<>>) : ts \in TurnLists, sys \in SystemInstructions }

\* a numeric field of the config: unset, 0, another value
NumberSettings == { <<>>, <<0>>, <<1>> }

\* stopSequences: unset, the empty list, a list
StopSettings == { <<>>, << <<>> >>, << <<"END">> >> }

Configs ==
  { <<>> } \cup
  { <<Config(t, p, k, m, st, sd, <<>>)>> :
      t \in NumberSettings, p \in NumberSettings, k \in NumberSettings,
      m \in NumberSettings, st \in StopSettings, sd \in NumberSettings }

ConfigRequests ==
  { Request(<<UserText(<<"a">>)>>, <<>>, c, <<>>) : c \in Configs }

FunctionDeclaration(name, description, parameters) ==
  [name |-> name, description |-> description, parameters |-> parameters]

Tool(fns) == [functionDeclarations |-> fns]

ToolLists ==
  { <<>>,
    <<Tool(<<>>)>>,
    <<Tool(<<FunctionDeclaration("read_file", <<"Reads a file">>,
                                 << << [k |-> "type", v |-> "object"] >> >>)>>)>>,
    <<Tool(<<FunctionDeclaration("ls", <<>>, <<>>)>>),
      Tool(<<FunctionDeclaration("read_file", <<>>, <<>>),
             FunctionDeclaration("ls", <<"Lists">>, <<>>)>>)>> }

ToolRequests ==
  { Request(<<UserText(<<"a">>)>>, <<>>, <<>>, tl) : tl \in ToolLists }

\* a system instruction where the SDK's GenerateContentConfig carries it,
\* config.systemInstruction, with and without one on the request itself
SystemInConfigRequests ==
  { Request(<<UserText(<<"a">>)>>, top,
            <<Config(<<>>, <<>>, <<>>, <<>>, <<>>, <<>>, sys)>>, <<>>) :
      top \in { <<>>, <<Content("user", <<TextPart(<<"s">>)>>)>> },
      sys \in { <<Content("user", <<TextPart(<<"s">>)>>)>>,
                <<Content("user", <<TextPart(<<"t">>)>>)>> } }

ConvertRequests ==
  SingleTurnRequests \cup MultiTurnRequests \cup ConfigRequests
    \cup ToolRequests \cup SystemInConfigRequests

InitConvert ==
  /\ op = "convertToOllamaRequest"
  /\ request \in ConvertRequests
  /\ NoCall

\* convertToOllamaRequest(request, stream), its value kept
Convert(stream) ==
  /\ pc = "idle"
  /\ result' = <<convertToOllamaRequest(request, stream)>>
  /\ pc' = "returnedResponse"
  /\ UNCHANGED <<op, request, restVars>>

NextConvert == \E stream \in BOOLEAN : Convert(stream)

SpecConvert == InitConvert /\ [][NextConvert]_vars

----------------------------------------------------------------------------
(* The response converters on their own: one answer of the server, full or  *)
(* one record of a stream, converted                                        *)

\* done_reason of an answer: absent, stop, length, a reason Ollama gives
\* when a model is loaded, the empty string
DoneReasons == {<<>>, <<"stop">>, <<"length">>, <<"load">>, <<"">>}

HelloText == <<"H", "e", "l", "l", "o">>

OllamaResponses ==
  { OllamaResponse(c, t, d, r, p, e) :
      c \in {<<>>, <<"a">>, HelloText},
      t \in {<<>>, <<ToolCall>>},
      d \in BOOLEAN,
      r \in DoneReasons,
      p \in {<<>>, <<0>>, <<5>>},
      e \in {<<>>, <<0>>, <<3>>} }

\* the records ParseLine reads, with every count
OllamaStreamChunks ==
  [content : {<<>>, <<"a">>},
   tool_calls : {<<>>, <<ToolCall>>},
   done : BOOLEAN,
   done_reason : {"undefined", "stop", "length"},
   prompt_eval_count : {<<>>, <<0>>, <<5>>},
   eval_count : {<<>>, <<0>>, <<3>>}]

InitRespond ==
  \/ /\ op = "convertToGeminiResponse"
     /\ request \in OllamaResponses
     /\ NoCall
  \/ /\ op = "convertStreamChunkToGeminiResponse"
     /\ request \in OllamaStreamChunks
     /\ NoCall

Respond ==
  /\ op = "convertToGeminiResponse"
  /\ pc = "idle"
  /\ result' = <<convertToGeminiResponse(request)>>
  /\ pc' = "returnedResponse"
  /\ UNCHANGED <<op, request, restVars>>

RespondChunk ==
  /\ op = "convertStreamChunkToGeminiResponse"
  /\ pc = "idle"
  /\ result' = <<convertStreamChunkToGeminiResponse(request)>>
  /\ pc' = "returnedResponse"
  /\ UNCHANGED <<op, request, restVars>>

NextRespond ==
  \/ Respond
  \/ RespondChunk

SpecRespond == InitRespond /\ [][NextRespond]_vars

----------------------------------------------------------------------------
(* Two streams of one instance, their reads and pulls interleaved.  Each    *)
(* variable of the generator holds one value for each call.                 *)

Calls == {1, 2}

\* buffer and isFirst kept on the instance, one for every call
SlotShared(c) == 1

\* reader, decoder, buffer and isFirst are locals of the invocation
Slot(c) == c

\* the bodies the server writes: lines and whether the last is terminated
TwoBodies ==
  { [written |-> << <<"{", "a", "}">>, <<"{", "b", "}">> >>, trailingNL |-> TRUE],
    [written |-> << <<"{", "b", "}">>, <<"{", "d", "}">> >>, trailingNL |-> FALSE],
    [written |-> << <<"{", "a", "}">> >>, trailingNL |-> FALSE],
    [written |-> << <<"{", "a">>, <<"{", "d", "}">> >>, trailingNL |-> TRUE] }

WireOf(c) ==
  IF trailingNL[c] THEN Join(written[c]) ELSE Front(Join(written[c]))

\* both generateContentStream calls have returned their generators
InitTwo ==
  /\ op = "generateStream"
  /\ request = ChatRequest
  /\ sent = <<Body, Body>>
  /\ result = <<>>
  /\ baseUrl \in { StripTrailingSlash(u) : u \in BaseUrlInputs }
  /\ aborted = FALSE
  /\ preAborted = FALSE
  /\ pc = [c \in Calls |-> "suspendedStart"]
  /\ httpRequests = 2
  /\ response = <<>>
  /\ rejection = <<>>
  /\ thrown = <<>>
  /\ \E b \in [Calls -> TwoBodies] :
       /\ written = [c \in Calls |-> b[c].written]
       /\ trailingNL = [c \in Calls |-> b[c].trailingNL]
  /\ pos = [c \in Calls |-> 0]
  /\ buffer = [c \in Calls |-> <<>>]
  /\ lines = [c \in Calls |-> <<>>]
  /\ isFirst = [c \in Calls |-> TRUE]
  /\ locked = [c \in Calls |-> FALSE]
  /\ cut = FALSE
  /\ decoded = <<>>
  /\ yielded = [c \in Calls |-> <<>>]
  /\ sources = <<>>
  /\ lastPull = "none"

twoFixed == <<op, request, sent, result, baseUrl, aborted, preAborted,
              httpRequests, response, rejection, thrown, written, trailingNL,
              cut, decoded, sources, lastPull>>

\* the for loop of call c over ls, until its next yield or its next read
LoopOf(c, ls) ==
  LET r == RunLines(ls)
  IN /\ isFirst' = [isFirst EXCEPT ![Slot(c)] = (@ /\ r.dec = <<>>)]
     /\ yielded' = [yielded EXCEPT ![c] = @ \o r.out]
     /\ lines' = [lines EXCEPT ![c] = r.rest]
     /\ pc' = [pc EXCEPT ![c] = IF r.out # <<>> THEN "suspendedYield"
                                ELSE "awaitRead"]

PullStartOf(c) ==
  /\ pc[c] = "suspendedStart"
  /\ locked' = [locked EXCEPT ![c] = TRUE]
  /\ pc' = [pc EXCEPT ![c] = "awaitRead"]
  /\ UNCHANGED <<twoFixed, pos, buffer, lines, isFirst, yielded>>

ReadChunkOf(c, n) ==
  /\ pc[c] = "awaitRead"
  /\ n \in 1..(Len(WireOf(c)) - pos[c])
  /\ LET segs == Split(Accumulate(buffer[Slot(c)],
                                  SubSeq(WireOf(c), pos[c] + 1, pos[c] + n)))
     IN /\ buffer' = [buffer EXCEPT ![Slot(c)] = PopBuffer(segs)]
        /\ LoopOf(c, CandidateLines(segs))
  /\ pos' = [pos EXCEPT ![c] = @ + n]
  /\ UNCHANGED <<twoFixed, locked>>

PullResumeOf(c) ==
  /\ pc[c] = "suspendedYield"
  /\ LoopOf(c, lines[c])
  /\ UNCHANGED <<twoFixed, pos, buffer, locked>>

ReadDoneOf(c) ==
  /\ pc[c] = "awaitRead"
  /\ pos[c] = Len(WireOf(c))
  /\ LET t == RunTail(buffer[Slot(c)])
     IN /\ yielded' = [yielded EXCEPT ![c] = @ \o t.out]
        /\ IF t.out # <<>>
           THEN /\ pc' = [pc EXCEPT ![c] = "suspendedTail"]
                /\ UNCHANGED locked
           ELSE /\ pc' = [pc EXCEPT ![c] = "completed"]
                /\ locked' = [locked EXCEPT ![c] = ReleaseLock(@)]
  /\ UNCHANGED <<twoFixed, pos, buffer, lines, isFirst>>

PullAfterTailOf(c) ==
  /\ pc[c] = "suspendedTail"
  /\ locked' = [locked EXCEPT ![c] = ReleaseLock(@)]
  /\ pc' = [pc EXCEPT ![c] = "completed"]
  /\ UNCHANGED <<twoFixed, pos, buffer, lines, isFirst, yielded>>

NextTwo ==
  \E c \in Calls :
    \/ PullStartOf(c)
    \/ \E n \in 1..Len(WireOf(c)) : ReadChunkOf(c, n)
    \/ PullResumeOf(c)
    \/ ReadDoneOf(c)
    \/ PullAfterTailOf(c)

SpecTwo == InitTwo /\ [][NextTwo]_vars

----------------------------------------------------------------------------
(* What the server wrote, read back line by line *)

IsRecord(line) == ~IsBlank(line) /\ ParseLine(line).ok

IsMalformed(line) == ~IsBlank(line) /\ ~ParseLine(line).ok

\* the records of the stream, in the order written
RecordsWritten ==
  LET recs == SelectSeq(written, IsRecord)
  IN [i \in 1..Len(recs) |-> ParseLine(recs[i]).chunk]

\* their fragments, in the order written
FragmentsWritten ==
  [i \in 1..Len(RecordsWritten) |->
     convertStreamChunkToGeminiResponse(RecordsWritten[i])]

MalformedCount == Cardinality({i \in 1..Len(written) : IsMalformed(written[i])})

IsTerminal(g) == g.finishReason # "undefined"

TerminalCount(fs) == Cardinality({i \in 1..Len(fs) : IsTerminal(fs[i])})

\* s is t with some elements left out
RECURSIVE IsSubsequence(_, _)
IsSubsequence(s, t) ==
  IF s = <<>> THEN TRUE
  ELSE IF t = <<>> THEN FALSE
  ELSE IF Head(s) = Head(t) THEN IsSubsequence(Tail(s), Tail(t))
  ELSE IsSubsequence(s, Tail(t))

\* every fragment the generator yields on a body delivered as one chunk
RECURSIVE AllYields(_)
AllYields(ls) ==
  LET r == RunLines(ls)
  IN IF r.out = <<>> THEN <<>> ELSE r.out \o AllYields(r.rest)

OneChunkYields(w) ==
  IF w = <<>> THEN <<>>
  ELSE LET segs == Split(w)
       IN AllYields(CandidateLines(segs)) \o RunTail(PopBuffer(segs)).out

InGenerator ==
  pc \in {"suspendedStart", "awaitRead", "suspendedYield", "suspendedTail",
          "completed", "failed", "returned"}

----------------------------------------------------------------------------
(* Claims *)

\* C1: chunk-boundary independence.  When the stream has ended normally, the
\* fragments yielded, however the body was cut into chunks, are the fragments
\* yielded when the whole body arrives as one chunk.
C1_ChunkBoundaryIndependence ==
  pc = "completed" => yielded = OneChunkYields(Wire)

C1_Witness ==
  /\ pc = "completed"
  /\ cut
  /\ Len(yielded) >= 2
  /\ yielded = OneChunkYields(Wire)

\* C2: resilience.  In a stream with exactly one unparseable line, the chunks
\* decoded at normal completion are exactly the valid records, in order, with
\* no error raised; the generator fails only when the transport fails.
C2_Resilience ==
  (InGenerator /\ MalformedCount = 1) =>
     /\ pc = "completed" => (decoded = RecordsWritten /\ thrown = <<>>)
     /\ thrown # <<>> => (pc = "failed" /\ thrown = rejection)

C2_Witness ==
  /\ pc = "completed"
  /\ MalformedCount = 1
  /\ Len(RecordsWritten) >= 2
  /\ decoded = RecordsWritten
  /\ thrown = <<>>

\* C3: emptiness filter.  Every fragment yielded carries a non-empty content
\* part or comes from a record with done = true.
C3_EmptinessFilter ==
  \A i \in 1..Len(yielded) : HasParts(yielded[i]) \/ IsTerminal(yielded[i])

\* C4 as stated: whatever the server writes, a fragment with a finish reason
\* is the last fragment of its stream (so there is at most one).
C4_AtMostOneTerminalAlways ==
  \A i \in 1..Len(yielded) : IsTerminal(yielded[i]) => i = Len(yielded)

\* the server writes at most one done = true record, as its last record
DoneOnlyLast ==
  \A i \in 1..Len(RecordsWritten) :
     RecordsWritten[i].done => i = Len(RecordsWritten)

\* C4 amended: a stream read to its end has one terminal fragment per
\* done = true record written; when the server writes at most one such record
\* and writes it last, a fragment with a finish reason is the last fragment
\* of its stream.
C4_AtMostOneTerminal ==
  /\ DoneOnlyLast => C4_AtMostOneTerminalAlways
  /\ pc = "completed" => TerminalCount(yielded) = TerminalCount(FragmentsWritten)

C4_Witness ==
  /\ pc = "completed"
  /\ DoneOnlyLast
  /\ Len(yielded) >= 2
  /\ IsTerminal(yielded[Len(yielded)])
  /\ TerminalCount(yielded) = 1

\* C5: ordering.  The fragments yielded are fragments of the records written,
\* in the order written, each record yielding at most once.
C5_Ordering == IsSubsequence(yielded, FragmentsWritten)

C5_Witness ==
  /\ pc = "completed"
  /\ Len(yielded) >= 3
  /\ yielded[1] # yielded[2]
  /\ yielded = FragmentsWritten

\* C6: reader release.  A stream that has ended (end of source, failed read,
\* early return) does not hold the reader lock.
C6_ReaderReleased ==
  pc \in {"completed", "failed", "returned"} => ~locked

C6_Witness ==
  /\ pc = "returned"
  /\ yielded # <<>>
  /\ lines # <<>>
  /\ ~locked

\* C7: connectivity failure.  A connection-refused rejection of fetch reaches
\* the caller as the ConnectionError naming the base endpoint.
C7_ConnectionError ==
  (pc = "threw" /\ rejection = <<RefusedError>>) =>
     thrown = <<ConnectionError(baseUrl)>>

\* C8: HTTP error.  A non-2xx response makes generate fail with the HttpError
\* carrying that status and that body text.
C8_HttpError ==
  (/\ op = "generate"
   /\ pc = "threw"
   /\ response # <<>>
   /\ ~Ok(response[1].status)
   /\ rejection = <<>>) =>
     thrown = <<HttpError(response[1].status, response[1].body)>>

\* C9: cancellation outcome.  An abort error reported by the transport reaches
\* the caller as that same error.
C9_AbortUnchanged ==
  (rejection # <<>> /\ rejection[1].name = "AbortError") => thrown = rejection

C9_Witness ==
  /\ op = "generate"
  /\ pc = "threw"
  /\ ~preAborted
  /\ rejection # <<>>
  /\ rejection[1].name = "AbortError"
  /\ Includes(rejection[1].msg, "ECONNREFUSED")
  /\ thrown = rejection

\* C10: a signal already set when generate or generateStream is called.  No
\* HTTP request is sent and the call ends with the abort error.
C10_PreAborted ==
  (preAborted /\ op \in {"generate", "generateStream"}) =>
     /\ httpRequests = 0
     /\ pc = "threw"
     /\ thrown # <<>>
     /\ thrown[1] \in AbortErrors

C10_Witness ==
  /\ preAborted
  /\ op = "generateStream"
  /\ pc = "threw"
  /\ httpRequests = 0
  /\ thrown # <<>>
  /\ thrown[1].name = "AbortError"

\* C11: embed validation.  An embed call on a request whose concatenated Text
\* parts are empty after trimming has ended with the ValidationError, and no
\* HTTP request has been issued.
C11_EmbedValidation ==
  (op = "embed" /\ pc # "idle" /\ Trim(ContentsText(request.contents)) = <<>>) =>
     /\ pc = "threw"
     /\ thrown = <<ValidationError>>
     /\ httpRequests = 0
     /\ sent = <<>>

C11_Witness ==
  /\ op = "embed"
  /\ pc = "threw"
  /\ request.contents # <<>>
  /\ ContentsText(request.contents) # <<>>
  /\ Trim(ContentsText(request.contents)) = <<>>
  /\ thrown = <<ValidationError>>
  /\ httpRequests = 0

\* C12: no retries.  A call of generate, generateStream or embed has issued
\* at most one HTTP request, whatever its outcome; a call of countTokens has
\* issued none.
C12_NoRetries ==
  /\ httpRequests <= 1
  /\ Len(sent) = httpRequests
  /\ op = "countTokens" => httpRequests = 0

C12_Witness ==
  /\ op = "embed"
  /\ pc = "threw"
  /\ rejection = <<RefusedError>>
  /\ thrown = <<ConnectionError(baseUrl)>>
  /\ httpRequests = 1

\* the records written that carry tool calls
ToolCallRecords ==
  {i \in 1..Len(RecordsWritten) : RecordsWritten[i].tool_calls # <<>>}

\* the FunctionCall parts of a fragment
FunctionCalls(g) == SelectSeq(g.parts, IsFunctionCall)

\* C20: tool calls in stream fragments.  When the stream has ended normally,
\* every record written with tool calls has its fragment among those yielded,
\* with one FunctionCall part per tool call.
C20_ToolCallsForwarded ==
  pc = "completed" =>
     Cardinality({i \in 1..Len(yielded) :
                    Len(FunctionCalls(yielded[i])) = 1})
       = Cardinality(ToolCallRecords)

\* the values an estimator returned are all v
AllReturned(v) == \A i \in 1..Len(result) : result[i] = v

\* the contract of an estimator on the text it was called on: 0 for the empty
\* text, at least 1 for any other, the same value at every call
EstimatorContract ==
  /\ request = <<>> => AllReturned(0)
  /\ request # <<>> => \A i \in 1..Len(result) : result[i] >= 1
  /\ \A i, j \in 1..Len(result) : result[i] = result[j]

\* C13: estimateTokenCount returns 0 for the empty text, at least 1 for every
\* other text, and the same value at every call on the same text.
C13_EstimateBounds ==
  op = "estimateTokenCount" => EstimatorContract

\* C14: estimateTokenCountSimple, estimateTokenCountForCode and
\* estimateTokenCountMixed each return 0 for the empty text, at least 1 for
\* every other text, and the same value at every call on the same text.
C14_AuxiliaryEstimateBounds ==
  op \in Estimators \ {"estimateTokenCount"} => EstimatorContract

\* convertToOllamaRequest has returned
Converted == op = "convertToOllamaRequest" /\ pc = "returnedResponse"

\* the messages of the request it returned
Messages == result[1].messages

\* C15: empty turns are dropped.  No message that comes from a turn has empty
\* content together with no images and no tool calls.
C15_EmptyTurnsDropped ==
  Converted =>
     \A i \in 1..Len(Messages) :
        Messages[i].role # "system" =>
           ~(/\ Messages[i].content = <<>>
             /\ Messages[i].images = <<>>
             /\ Messages[i].tool_calls = <<>>)

\* the text extracted from the request's system instruction
SystemText ==
  IF request.systemInstruction = <<>> THEN <<>>
  ELSE extractTextFromContent(request.systemInstruction[1])

\* C16: system instruction placement.  There is a message of role system if
\* and only if the request has a system instruction whose extracted text is
\* not empty; it is then the first message and the only one of that role,
\* it carries that text, and the messages of the turns follow it in the order
\* of the turns.
C16_SystemPlacement ==
  Converted =>
     LET systems == {i \in 1..Len(Messages) : Messages[i].role = "system"}
         n == Cardinality(systems)
     IN /\ systems # {} <=> SystemText # <<>>
        /\ systems \subseteq {1}
        /\ systems # {} => Messages[1].content = SystemText
        /\ SubSeq(Messages, n + 1, Len(Messages))
             = TurnMessages(request.contents)

C16_Witness ==
  /\ Converted
  /\ SystemText = <<"s">>
  /\ Len(Messages) = 3
  /\ Messages[1].role = "system"
  /\ Messages[1].content = <<"s">>
  /\ Messages[2].role = "user"
  /\ Messages[3].role = "assistant"

\* every turn of the request gave one message, and nothing else did
OneMessagePerTurn ==
  /\ request.systemInstruction = <<>>
  /\ \A i \in 1..Len(request.contents) : request.contents[i].parts # <<>>

HasFunctionResponse(turn) ==
  \E i \in 1..Len(turn.parts) : turn.parts[i].kind = "functionResponse"

\* the texts of the Text parts that have text and, where json is set, the
\* JSON of the function-response payloads, in the order of the parts
RECURSIVE TextsOf(_, _)
TextsOf(parts, json) ==
  IF parts = <<>> THEN <<>>
  ELSE (IF Head(parts).kind = "text" /\ Head(parts).text # <<>>
        THEN <<Head(parts).text>>
        ELSE IF json /\ Head(parts).kind = "functionResponse"
        THEN <<JSONStringify(Head(parts).response)>>
        ELSE <<>>)
       \o TextsOf(Tail(parts), json)

\* the data of the inline parts whose MIME type begins with image/, in order
RECURSIVE ImagesOf(_)
ImagesOf(parts) ==
  IF parts = <<>> THEN <<>>
  ELSE (IF /\ Head(parts).kind = "inlineData"
           /\ Head(parts).mimeType # <<>>
           /\ Head(parts).mimeType[1] = "image/"
        THEN <<Head(parts).data>> ELSE <<>>)
       \o ImagesOf(Tail(parts))

\* C17: a FunctionResponse part forces the tool role.  The message of every
\* turn that holds a FunctionResponse part has role tool, whatever the role
\* of the turn and the place of the part, and its content is the texts of the
\* Text parts and the JSON of the FunctionResponse payloads, in the order of
\* the parts, joined by newlines.
C17_FunctionResponseForcesTool ==
  (Converted /\ OneMessagePerTurn) =>
     \A i \in 1..Len(request.contents) :
        HasFunctionResponse(request.contents[i]) =>
           /\ Messages[i].role = "tool"
           /\ Messages[i].content
                = JoinNL(TextsOf(request.contents[i].parts, TRUE))

C17_Witness ==
  /\ Converted
  /\ OneMessagePerTurn
  /\ Len(request.contents) = 1
  /\ request.contents[1].role = "model"
  /\ Len(request.contents[1].parts) = 3
  /\ request.contents[1].parts[1].kind = "text"
  /\ request.contents[1].parts[2].kind = "functionResponse"
  /\ request.contents[1].parts[3].kind = "text"
  /\ Messages[1].role = "tool"
  /\ Len(Messages[1].content) = 13

\* C18 as stated: the content of the message of every turn is the turn's
\* Text parts joined by newlines, and its images are the data of the inline
\* parts whose MIME type begins with image/.
C18_AggregationEveryTurn ==
  (Converted /\ OneMessagePerTurn) =>
     \A i \in 1..Len(request.contents) :
        /\ Messages[i].content
             = JoinNL(TextsOf(request.contents[i].parts, FALSE))
        /\ Messages[i].images = ImagesOf(request.contents[i].parts)

\* C18 amended: the content of the message of every turn without a
\* FunctionResponse part is the texts of the turn's Text parts that have
\* text, in order, joined by newlines; the images of the message of every
\* turn are the data, in order, of the inline parts whose MIME type begins
\* with image/.
C18_Aggregation ==
  (Converted /\ OneMessagePerTurn) =>
     \A i \in 1..Len(request.contents) :
        /\ ~HasFunctionResponse(request.contents[i]) =>
              Messages[i].content
                = JoinNL(TextsOf(request.contents[i].parts, FALSE))
        /\ Messages[i].images = ImagesOf(request.contents[i].parts)

C18_Witness ==
  /\ Converted
  /\ Len(request.contents) = 1
  /\ Len(request.contents[1].parts) = 3
  /\ request.contents[1].parts[2].kind = "inlineData"
  /\ request.contents[1].parts[2].mimeType = <<"application/", "pdf">>
  /\ request.contents[1].parts[3].kind = "inlineData"
  /\ Messages[1].content = <<"a">>
  /\ Messages[1].images = <<"/9j/4">>

\* the option that carries each field of the config
OptionOf ==
  [temperature |-> "temperature", topP |-> "top_p", topK |-> "top_k",
   maxOutputTokens |-> "num_predict", stopSequences |-> "stop",
   seed |-> "seed"]

\* the fields of the request's config the caller set
FieldsSet ==
  IF request.config = <<>> THEN {}
  ELSE {f \in DOMAIN OptionOf : request.config[1][f] # <<>>}

\* the options of the request returned are the fields in set, with the
\* caller's values, and are absent when set is empty
Forwards(set) ==
  LET options == result[1].options
  IN /\ options = <<>> <=> set = {}
     /\ options # <<>> =>
           \A f \in DOMAIN OptionOf :
              options[1][OptionOf[f]]
                = IF f \in set THEN request.config[1][f] ELSE <<>>

\* C19 as stated: the options are exactly the fields the caller set, and are
\* absent if and only if the caller set none.
C19_OptionsExactlySet == Converted => Forwards(FieldsSet)

\* the caller set stopSequences to the empty list
EmptyStopList ==
  request.config # <<>> /\ request.config[1].stopSequences = << <<>> >>

\* C19 amended: the options are exactly the fields the caller set, a
\* stopSequences list that is empty counting as not set, with the caller's
\* values (a 0 included); they are absent if and only if no such field is
\* set.
C19_OptionsForwarded ==
  Converted =>
     Forwards(IF EmptyStopList THEN FieldsSet \ {"stopSequences"}
              ELSE FieldsSet)

C19_Witness ==
  /\ Converted
  /\ FieldsSet = {"temperature", "stopSequences", "seed"}
  /\ request.config[1].temperature = <<0>>
  /\ request.config[1].stopSequences = << <<"END">> >>
  /\ OptionKeys(result[1].options[1]) = {"temperature", "stop", "seed"}
  /\ result[1].options[1].temperature = <<0>>

----------------------------------------------------------------------------
(* Claims about the response converters, under SpecRespond *)

Responded == pc = "returnedResponse" /\ result # <<>>

HelloResponse ==
  OllamaResponse(HelloText, <<>>, TRUE, <<"stop">>, <<5>>, <<3>>)

\* C21: convertToGeminiResponse sets the finish reason to MAX_TOKENS exactly
\* when done_reason is "length" and to STOP for every other answer (stop,
\* absent, any other value); the text Hello with done_reason stop,
\* prompt_eval_count 5 and eval_count 3 gives one text part Hello, STOP and a
\* total of 8.
C21_FinishReason ==
  (op = "convertToGeminiResponse" /\ Responded) =>
    /\ result[1].finishReason =
         (IF request.done_reason = <<"length">> THEN "MAX_TOKENS" ELSE "STOP")
    /\ request = HelloResponse =>
         /\ result[1].parts = <<TextPart(HelloText)>>
         /\ result[1].finishReason = "STOP"
         /\ result[1].usageMetadata[1].totalTokenCount = 8

C21_Witness ==
  /\ op = "convertToGeminiResponse"
  /\ Responded
  /\ request = HelloResponse
  /\ result[1].finishReason = "STOP"
  /\ result[1].usageMetadata[1].totalTokenCount = 8

\* C23: every response and every fragment that carries usage metadata has
\* totalTokenCount = promptTokenCount + candidatesTokenCount, the two being
\* prompt_eval_count and eval_count with an absent count taken as 0.
C23_UsageSum ==
  (Responded /\ result[1].usageMetadata # <<>>) =>
    LET u == result[1].usageMetadata[1]
    IN  /\ u.promptTokenCount = OrZero(request.prompt_eval_count)
        /\ u.candidatesTokenCount = OrZero(request.eval_count)
        /\ u.totalTokenCount = u.promptTokenCount + u.candidatesTokenCount

C23_Witness ==
  /\ op = "convertStreamChunkToGeminiResponse"
  /\ Responded
  /\ request.done
  /\ request.prompt_eval_count = <<5>>
  /\ request.eval_count = <<>>
  /\ result[1].usageMetadata # <<>>
  /\ result[1].usageMetadata[1].totalTokenCount = 5


----------------------------------------------------------------------------
(* Claims about the fragments of a stream, under Spec *)

\* C22: for every fragment yielded by generateContentStream, the finish
\* reason is set if and only if its record has done = true, and usage metadata
\* is present if and only if its record has done = true; every fragment
\* before the first one of a done record has neither.
C22_TerminalOnlyMetadata ==
  /\ Len(sources) = Len(yielded)
  /\ \A i \in 1..Len(yielded) :
       /\ (yielded[i].finishReason # "undefined") <=> sources[i].done
       /\ (yielded[i].usageMetadata # <<>>) <=> sources[i].done
       /\ (\A j \in 1..i : ~sources[j].done) =>
            /\ yielded[i].finishReason = "undefined"
            /\ yielded[i].usageMetadata = <<>>

C22_Witness ==
  /\ pc = "completed"
  /\ Len(yielded) >= 2
  /\ ~sources[1].done
  /\ yielded[1].usageMetadata = <<>>
  /\ sources[Len(sources)].done
  /\ yielded[Len(yielded)].finishReason = "STOP"
  /\ yielded[Len(yielded)].usageMetadata # <<>>


\* the text of the Text parts of a response, in order
RECURSIVE PartsTextOf(_)
PartsTextOf(parts) ==
  IF parts = <<>> THEN <<>>
  ELSE (IF Head(parts).kind = "text" THEN Head(parts).text ELSE <<>>)
       \o PartsTextOf(Tail(parts))

\* the text of the fragments of a stream, in yield order
RECURSIVE FragmentsText(_)
FragmentsText(fs) ==
  IF fs = <<>> THEN <<>>
  ELSE PartsTextOf(Head(fs).parts) \o FragmentsText(Tail(fs))

\* the contents of the records of a stream, in the order written
RECURSIVE ContentsOf(_)
ContentsOf(chunks) ==
  IF chunks = <<>> THEN <<>>
  ELSE Head(chunks).content \o ContentsOf(Tail(chunks))

\* the same exchange answered as one full response
FullAnswer ==
  OllamaResponse(ContentsOf(RecordsWritten), <<>>, TRUE, <<"stop">>, <<>>, <<>>)

\* C24: when the stream has ended normally, the Text parts of the fragments
\* yielded, concatenated in yield order, are the Text part
\* convertToGeminiResponse produces for the full response whose content is
\* the concatenation of the contents of the records written: no text lost in
\* a suppressed or skipped fragment, none duplicated.
C24_StreamEqualsFull ==
  pc = "completed" =>
    /\ FragmentsText(yielded) = PartsTextOf(convertToGeminiResponse(FullAnswer).parts)
    /\ FragmentsText(yielded) = ContentsOf(RecordsWritten)

C24_Witness ==
  /\ pc = "completed"
  /\ cut
  /\ ~trailingNL
  /\ Len(FragmentsText(yielded)) >= 2
  /\ Len(yielded) < Len(RecordsWritten)
  /\ convertToGeminiResponse(FullAnswer).parts = <<TextPart(FragmentsText(yielded))>>


\* the bytes reader.read() has delivered so far
Received == SubSeq(Wire, 1, pos)

\* the chunks of the lines that parse, in order
ChunksOf(ls) ==
  LET recs == SelectSeq(ls, IsRecord)
  IN [i \in 1..Len(recs) |-> ParseLine(recs[i]).chunk]

IsSuffix(s, t) == \E k \in 0..Len(t) : s = SubSeq(t, k + 1, Len(t))

\* C26: once the generator runs, after each chunk the buffer is exactly the
\* text received after the last newline received; the lines still to run are
\* the last of the complete lines received, and the chunks converted so far
\* followed by those of the lines still to run are those of the complete
\* lines received, each once, followed at the end of the source by that of
\* the remaining buffer: nothing received is parsed twice or dropped.
C26_BufferInvariant ==
  pc \in {"awaitRead", "suspendedYield", "suspendedTail", "completed", "failed"} =>
    LET segs == Split(Received)
    IN /\ buffer = segs[Len(segs)]
       /\ Join(SubSeq(segs, 1, Len(segs) - 1)) \o buffer = Received
       /\ IsSuffix(lines, SubSeq(segs, 1, Len(segs) - 1))
       /\ decoded \o ChunksOf(lines)
            = ChunksOf(SubSeq(segs, 1, Len(segs) - 1))
              \o (IF pc \in {"suspendedTail", "completed"}
                  THEN ChunksOf(<<buffer>>) ELSE <<>>)

C26_Witness ==
  /\ pc = "awaitRead"
  /\ pos < Len(Wire)
  /\ buffer # <<>>
  /\ Len(decoded) >= 1
  /\ buffer = Split(Received)[Len(Split(Received))]
  /\ Len(Split(Received)) >= 3


\* reader.read() has rejected
ReadFailed == rejection # <<>> /\ pc # "threw"

\* the failure took everything received, the unterminated record in the
\* buffer included
C27_AllReceivedYielded ==
  ReadFailed => yielded = OneChunkYields(Received)

\* C27: when reader.read() rejects, the generator ends: the pending pull
\* rejects with the error of the transport, unchanged, and the reader is
\* released; the fragments yielded are exactly those of the newline-terminated
\* lines received before the failure (a record received without its newline
\* stays in the buffer and is lost); later pulls yield nothing more.
C27_ReadFailure ==
  /\ [](ReadFailed =>
          /\ pc = "failed"
          /\ thrown = rejection
          /\ ~locked
          /\ lastPull \in {"error", "done"}
          /\ LET segs == Split(Received)
             IN yielded = AllYields(SubSeq(segs, 1, Len(segs) - 1)))
  /\ [][pc = "failed" =>
          /\ pc' = "failed"
          /\ yielded' = yielded
          /\ thrown' = thrown
          /\ pos' = pos]_vars

C27_Witness ==
  /\ pc = "failed"
  /\ lastPull = "done"
  /\ thrown = <<OtherTransportError>>
  /\ Len(yielded) >= 1
  /\ buffer # <<>>
  /\ ParseLine(buffer).ok
  /\ yielded # OneChunkYields(Received)


\* C28: once the signal is set while the generator is suspended at a yield,
\* no further fragment is yielded to the caller, the fragments of lines
\* already received in the current chunk included: the next pull yields
\* nothing.
C28_NoYieldAfterAbort ==
  [][(aborted /\ pc = "suspendedYield") => yielded' = yielded]_vars

Ended == pc \in {"completed", "failed", "returned"}

NonBlankLines == Cardinality({i \in 1..Len(written) : ~IsBlank(written[i])})

\* C29: the fragments are finitely many, at most one for each non-blank line;
\* with a byte source that settles every read and a caller that keeps
\* pulling, a generator handed out is eventually reported done; once it has
\* completed, failed or been returned, a further pull reports done, yields no
\* fragment and reads nothing.
C29_FiniteNonRestartable ==
  /\ [](Len(yielded) <= NonBlankLines)
  /\ [][Ended =>
          /\ pc' = pc
          /\ yielded' = yielded
          /\ pos' = pos
          /\ lastPull' \in {lastPull, "done"}]_vars
  /\ (pc = "suspendedStart" ~> (Ended /\ lastPull = "done"))

C29_Witness ==
  /\ pc = "completed"
  /\ lastPull = "done"
  /\ rejection = <<>>
  /\ pos = Len(Wire)
  /\ Len(yielded) >= 2
  /\ Len(yielded) = NonBlankLines


----------------------------------------------------------------------------
(* The system instruction, as countTokens and convertToOllamaRequest read it *)

\* C30: for every request, if countTokens counts the text of the request's
\* system instruction, then convertToOllamaRequest on the same request emits
\* that text as its first message, of role system: the two read the system
\* instruction from the same field of the request.
C30_SystemReadConsistently ==
  (Converted /\ CountSystemText(request) # <<>>) =>
    /\ Messages # <<>>
    /\ Messages[1] =
         SystemMessage(extractTextFromContent(request.config[1].systemInstruction[1]))


----------------------------------------------------------------------------
(* Two calls on one instance, under SpecTwo *)

IsPrefix(s, t) == Len(s) <= Len(t) /\ s = SubSeq(t, 1, Len(s))

\* C25: whatever the interleaving of the reads and pulls of two streams of
\* one instance, each call yields what it yields when it runs alone, a prefix
\* of it while it runs and all of it once it has completed; the instance
\* holds its base URL only, and no step changes it.
C25_NoSharedState ==
  /\ [](\A c \in Calls :
          /\ IsPrefix(yielded[c], OneChunkYields(WireOf(c)))
          /\ pc[c] = "completed" => yielded[c] = OneChunkYields(WireOf(c)))
  /\ [][baseUrl' = baseUrl]_vars

C25_Witness ==
  /\ pc[1] = "awaitRead"
  /\ pc[2] = "awaitRead"
  /\ buffer[1] # <<>>
  /\ buffer[2] # <<>>
  /\ buffer[1] # buffer[2]
  /\ yielded[1] # <<>>
  /\ yielded[2] # <<>>
  /\ yielded[1] # yielded[2]


====
